---- MODULE Spec2Model ----
(***************************************************************************)
(* Model of the load_file crate (src/lib.rs): resolve_path,                *)
(* load_file_bytes, load_file_str and the expansions of load_bytes! and    *)
(* load_str!.  Paths are sequences of one-character strings, file contents *)
(* are sequences of bytes (0..255).  Each thread is one call path of the   *)
(* program; a call advances through resolve, open, read, leak and (for     *)
(* load_str!) UTF-8 validation, and other threads and the file system's    *)
(* other users may act between any two of these steps.                     *)
(***************************************************************************)
EXTENDS Integers, Sequences, FiniteSets, TLC

(***************************************************************************)
(* Bounds of the model.                                                    *)
(***************************************************************************)
MaxLoads == 2
MaxWrites == 2
MaxPathLen == 3
MaxBytes == 4

Threads == {1, 2}

RECURSIVE SeqsUpTo(_, _)
SeqsUpTo(S, n) ==
    IF n = 0 THEN {<<>>}
    ELSE LET shorter == SeqsUpTo(S, n - 1)
         IN  shorter \cup {Append(s, c) : s \in {x \in shorter : Len(x) = n - 1}, c \in S}

(***************************************************************************)
(* std::path on Unix, as used by resolve_path: Path::parent walks the      *)
(* components from the back and returns a slice of the original path.      *)
(***************************************************************************)
IsSep(c) == c = "/"

\* Components::has_physical_root, fixed when the iterator is created.
HasPhysicalRoot(p) == Len(p) > 0 /\ IsSep(p[1])

\* Components::include_cur_dir: a leading "." that is a component of its own.
IncludeCurDir(p, root) ==
    /\ ~root
    /\ Len(p) >= 1
    /\ p[1] = "."
    /\ (Len(p) = 1 \/ IsSep(p[2]))

\* Components::len_before_body, the front of the iterator never having moved.
LenBeforeBody(p, root) ==
    (IF root THEN 1 ELSE 0) + (IF IncludeCurDir(p, root) THEN 1 ELSE 0)

\* Position (in p) of the last separator at or after index start+1, 0 if none.
LastSepFrom(p, start) ==
    LET seps == {i \in (start + 1)..Len(p) : IsSep(p[i])}
    IN  IF seps = {} THEN 0 ELSE CHOOSE i \in seps : \A j \in seps : j <= i

\* Components::parse_single_component on Unix.
ParseSingleComponent(comp) ==
    IF comp = <<>> \/ comp = <<".">> THEN "none"
    ELSE IF comp = <<".", ".">> THEN "parentdir"
    ELSE "normal"

\* Components::parse_next_component_back: the size to cut and the component.
ParseNextComponentBack(p, root) ==
    LET start == LenBeforeBody(p, root)
        i == LastSepFrom(p, start)
        comp == IF i = 0 THEN SubSeq(p, start + 1, Len(p)) ELSE SubSeq(p, i + 1, Len(p))
    IN  [size |-> Len(comp) + (IF i = 0 THEN 0 ELSE 1), comp |-> ParseSingleComponent(comp)]

\* Components::next_back: the last component and the path left before it.
\* back is "body" while the body is being consumed, "prefix" afterwards.
RECURSIVE NextBack(_, _)
NextBack(p, root) ==
    IF Len(p) > LenBeforeBody(p, root)
    THEN LET r == ParseNextComponentBack(p, root)
             rest == SubSeq(p, 1, Len(p) - r.size)
         IN  IF r.comp # "none"
             THEN [comp |-> r.comp, path |-> rest, back |-> "body"]
             ELSE NextBack(rest, root)
    ELSE IF root
    THEN [comp |-> "rootdir", path |-> SubSeq(p, 1, Len(p) - 1), back |-> "prefix"]
    ELSE IF IncludeCurDir(p, root)
    THEN [comp |-> "curdir", path |-> SubSeq(p, 1, Len(p) - 1), back |-> "prefix"]
    ELSE [comp |-> "end", path |-> p, back |-> "prefix"]

\* Components::trim_right: drop trailing separators and "." components.
RECURSIVE TrimRight(_, _)
TrimRight(p, root) ==
    IF Len(p) > LenBeforeBody(p, root)
    THEN LET r == ParseNextComponentBack(p, root)
         IN  IF r.comp # "none" THEN p
             ELSE TrimRight(SubSeq(p, 1, Len(p) - r.size), root)
    ELSE p

\* Path::parent: None for a root and for the empty path.
Parent(p) ==
    LET root == HasPhysicalRoot(p)
        r == NextBack(p, root)
    IN  IF r.comp \in {"normal", "curdir", "parentdir"}
        THEN [some |-> TRUE,
              val |-> IF r.back = "body" THEN TrimRight(r.path, root) ELSE r.path]
        ELSE [some |-> FALSE, val |-> <<>>]

\* Path::is_absolute on Unix.
IsAbsolute(p) == Len(p) > 0 /\ IsSep(p[1])

\* Path::join (PathBuf::push on Unix): an absolute path replaces self,
\* otherwise a separator is added unless self is empty or ends with one.
Join(dir, rel) ==
    LET needSep == Len(dir) > 0 /\ ~IsSep(dir[Len(dir)])
    IN  IF IsAbsolute(rel) THEN rel
        ELSE IF needSep THEN dir \o <<"/">> \o rel
        ELSE dir \o rel

\* A resolve_path that forgets to take the parent of base.
ResolvePathKeepsFileName(base, rel) ==
    IF Parent(base).some
    THEN [ok |-> TRUE, val |-> Join(base, rel), err |-> ""]
    ELSE [ok |-> FALSE, val |-> <<>>, err |-> "invalid source file path"]

\* A resolve_path that treats an empty parent as no parent.
ResolvePathRejectsEmptyParent(base, rel) ==
    IF Parent(base).some /\ Parent(base).val # <<>>
    THEN [ok |-> TRUE, val |-> Join(Parent(base).val, rel), err |-> ""]
    ELSE [ok |-> FALSE, val |-> <<>>, err |-> "invalid source file path"]

\* resolve_path(base, rel)
ResolvePath(base, rel) ==
    LET parent == Parent(base)
    IN  IF parent.some
        THEN [ok |-> TRUE, val |-> Join(parent.val, rel), err |-> ""]
        ELSE [ok |-> FALSE, val |-> <<>>, err |-> "invalid source file path"]

(***************************************************************************)
(* core::str::from_utf8 (run_utf8_validation): the first byte gives the    *)
(* width of the character, the second byte is checked against the range    *)
(* the first one allows, the others are continuation bytes.                *)
(***************************************************************************)
\* core::str::utf8_char_width (the UTF8_CHAR_WIDTH table).
Utf8CharWidth(b) ==
    IF b < 128 THEN 1
    ELSE IF b < 194 THEN 0
    ELSE IF b < 224 THEN 2
    ELSE IF b < 240 THEN 3
    ELSE IF b < 245 THEN 4
    ELSE 0

\* A continuation byte: (b as i8) < -64.
IsCont(b) == 128 <= b /\ b <= 191

\* The (first, second) pairs the validation accepts for width 3 and 4.
SecondOk(first, second) ==
    \/ first = 224 /\ 160 <= second /\ second <= 191
    \/ 225 <= first /\ first <= 236 /\ IsCont(second)
    \/ first = 237 /\ 128 <= second /\ second <= 159
    \/ 238 <= first /\ first <= 239 /\ IsCont(second)
    \/ first = 240 /\ 144 <= second /\ second <= 191
    \/ 241 <= first /\ first <= 243 /\ IsCont(second)
    \/ first = 244 /\ 128 <= second /\ second <= 143

\* run_utf8_validation from index i (1-based); next!() past the end is an error.
RECURSIVE Utf8ValidFrom(_, _)
Utf8ValidFrom(v, i) ==
    IF i > Len(v) THEN TRUE
    ELSE LET first == v[i]
             w == Utf8CharWidth(first)
         IN  IF first < 128 THEN Utf8ValidFrom(v, i + 1)
             ELSE IF w = 2
             THEN i + 1 <= Len(v) /\ IsCont(v[i + 1]) /\ Utf8ValidFrom(v, i + 2)
             ELSE IF w = 3
             THEN /\ i + 2 <= Len(v)
                  /\ SecondOk(first, v[i + 1])
                  /\ IsCont(v[i + 2])
                  /\ Utf8ValidFrom(v, i + 3)
             ELSE IF w = 4
             THEN /\ i + 3 <= Len(v)
                  /\ SecondOk(first, v[i + 1])
                  /\ IsCont(v[i + 2])
                  /\ IsCont(v[i + 3])
                  /\ Utf8ValidFrom(v, i + 4)
             ELSE FALSE

\* A validation that accepts every byte sequence.
FromUtf8Unchecked(v) == TRUE

\* str::from_utf8(bytes).is_ok()
FromUtf8(v) == Utf8ValidFrom(v, 1)

(***************************************************************************)
(* The {:?} formatting of a str or a Path: quoted, with the quote and the  *)
(* backslash escaped.                                                      *)
(***************************************************************************)
RECURSIVE EscapeDebug(_)
EscapeDebug(s) ==
    IF s = <<>> THEN <<>>
    ELSE (IF Head(s) \in {"\"", "\\"} THEN <<"\\", Head(s)>> ELSE <<Head(s)>>)
         \o EscapeDebug(Tail(s))

Debug(s) == <<"\"">> \o EscapeDebug(s) \o <<"\"">>

\* format!("{} in <op>({:?})", msg, $name)
FormatUnresolved(reason, opname, name) ==
    <<reason, " in ", opname, "(">> \o Debug(name) \o <<")">>

\* A message that leaves out the resolved path.
FormatResolvedNoSuffix(reason, opname, name, path) ==
    FormatUnresolved(reason, opname, name)

\* format!("{} in <op>({:?}) (resolved to: {:?})", msg, $name, path)
FormatResolved(reason, opname, name, path) ==
    FormatUnresolved(reason, opname, name) \o <<" (resolved to: ">> \o Debug(path) \o <<")">>

\* The operation name each macro writes in the message of a failed
\* resolve_path, and in the message of a failed load.
ResolveErrName(o) == "load_bytes!"

LoadErrName(o) == IF o = "str" THEN "load_str!" ELSE "load_bytes!"

(***************************************************************************)
(* The file system.  An entry is a regular file, a regular file the        *)
(* process may not read ("locked"), a directory, or nothing.               *)
(***************************************************************************)
NoEntry == [kind |-> "none", data |-> <<>>]
FileEntry(c) == [kind |-> "file", data |-> c]

Entry(f, p) == IF p \in DOMAIN f THEN f[p] ELSE NoEntry

\* An open that does not check the permissions of the file.
OpenIgnoresPermissions(e) == e.kind \in {"file", "dir", "locked"}

\* Whether File::open can succeed / can fail on an entry.  Opening a
\* directory read-only succeeds on Unix and fails on Windows.
OpenMaySucceed(e) == e.kind \in {"file", "dir"}
OpenMayFail(e) == e.kind \in {"none", "locked", "dir"}

\* Whether read_to_end can succeed on what an open handle refers to:
\* reading a directory fails; any read may fail with an I/O error.
ReadMaySucceed(e) == e.kind = "file"

\* A read that adds a terminating zero byte.
ReadToEndTerminated(buf, data) == buf \o data \o <<0>>

\* A read that stops after the first byte.
ReadToEndPartial(buf, data) == buf \o (IF data = <<>> THEN <<>> ELSE <<Head(data)>>)

\* Read::read_to_end: all bytes up to EOF are appended to the buffer.
ReadToEnd(buf, data) == buf \o data

(***************************************************************************)
(* The leaked boxes.  Each is a pointer and the bytes it holds; the box of *)
(* an empty slice owns no allocation and has the dangling pointer.         *)
(***************************************************************************)
Dangling == 0
NoRef == [ptr |-> -1, len |-> 0]
NoHandle == [open |-> FALSE, live |-> FALSE, data |-> <<>>]
NoPath == [ok |-> FALSE, val |-> <<>>]

Ptrs(h) == {h[i].ptr : i \in DOMAIN h}

\* The allocator: an address that no live (never freed) block has.
AllocPtr(h) == CHOOSE a \in 1..(Len(h) + 1) : a \notin Ptrs(h)

\* A leak that keeps one buffer and overwrites it on each load.
LeakedOverwriting(h, bytes) ==
    IF h = <<>> THEN <<[ptr |-> 1, bytes |-> bytes]>>
    ELSE [h EXCEPT ![1] = [ptr |-> 1, bytes |-> bytes]]

\* into_boxed_slice + Box::leak: the heap after leaking bytes.
Leaked(h, bytes) ==
    Append(h, [ptr |-> IF bytes = <<>> THEN Dangling ELSE AllocPtr(h), bytes |-> bytes])

\* The bytes behind a returned reference.
Deref(h, r) ==
    IF r.len = 0 THEN <<>>
    ELSE LET i == CHOOSE j \in DOMAIN h : h[j].ptr = r.ptr IN SubSeq(h[i].bytes, 1, r.len)

\* The memory retained by the leaked boxes, in bytes.
RECURSIVE Retained(_)
Retained(h) == IF h = <<>> THEN 0 ELSE Len(Head(h).bytes) + Retained(Tail(h))

(***************************************************************************)
(* State.                                                                  *)
(***************************************************************************)
VARIABLES
    file,      \* file!() of each thread's call site
    pc,        \* where each thread is in the macro expansion
    op,        \* "bytes" for load_bytes!, "str" for load_str!
    name,      \* $name, the relative path argument
    path,      \* the result of resolve_path
    handle,    \* f, the open File
    contents,  \* the Vec being filled by read_to_end
    ref,       \* the &'static [u8] produced by Box::leak
    msg,       \* the panic message
    at,        \* the step that panicked
    fresh,     \* history: the thread has opened its file and the file
               \* system has not changed since
    fs,        \* the file system
    epoch,     \* number of changes made to the file system
    heap       \* the leaked boxes, oldest first

vars == <<file, pc, op, name, path, handle, contents, ref, msg, at, fresh, fs, epoch, heap>>

Ops == {"bytes", "str"}

SrcMain == <<"s", "/", "m">>
TopMain == <<"m">>
SourceFiles == {SrcMain, TopMain}

NameA == <<"a">>
NameD == <<"d">>
NameP == <<"p">>
Names == {NameA, NameD, NameP}

PathSA == <<"s", "/", "a">>
PathSD == <<"s", "/", "d">>
PathSP == <<"s", "/", "p">>
PathA == <<"a">>

Hi == <<72, 105>>
BadUtf8 == <<255, 254>>
Contents == {<<>>, Hi, BadUtf8}
MutablePaths == {PathSA}

Fs0 ==
    (PathSA :> FileEntry(Hi)) @@ (PathSD :> [kind |-> "dir", data |-> <<>>])
    @@ (PathSP :> [kind |-> "locked", data |-> Hi]) @@ (PathA :> FileEntry(BadUtf8))

InitThreads ==
    /\ pc = [t \in Threads |-> "idle"]
    /\ op = [t \in Threads |-> "bytes"]
    /\ name = [t \in Threads |-> <<>>]
    /\ path = [t \in Threads |-> NoPath]
    /\ handle = [t \in Threads |-> NoHandle]
    /\ contents = [t \in Threads |-> <<>>]
    /\ ref = [t \in Threads |-> NoRef]
    /\ msg = [t \in Threads |-> <<>>]
    /\ at = [t \in Threads |-> ""]
    /\ fresh = [t \in Threads |-> FALSE]
    /\ epoch = 0
    /\ heap = <<>>

\* Two call paths, in the same source file or in two source files.
Init ==
    /\ file \in {f \in [Threads -> SourceFiles] : f[1] = SrcMain}
    /\ fs = Fs0
    /\ InitThreads

(***************************************************************************)
(* The macro expansion, step by step.                                      *)
(***************************************************************************)
Panic(t, stage, m) ==
    /\ pc' = [pc EXCEPT ![t] = "panicked"]
    /\ at' = [at EXCEPT ![t] = stage]
    /\ msg' = [msg EXCEPT ![t] = m]

\* load_bytes!(n) / load_str!(n) is reached: resolve_path(file!(), $name).
Call(t, o, n) ==
    /\ pc[t] \in {"idle", "done"}
    /\ Len(heap) < MaxLoads
    /\ op' = [op EXCEPT ![t] = o]
    /\ name' = [name EXCEPT ![t] = n]
    /\ handle' = [handle EXCEPT ![t] = NoHandle]
    /\ contents' = [contents EXCEPT ![t] = <<>>]
    /\ ref' = [ref EXCEPT ![t] = NoRef]
    /\ fresh' = [fresh EXCEPT ![t] = FALSE]
    /\ LET r == ResolvePath(file[t], n)
       IN  IF r.ok
           THEN /\ path' = [path EXCEPT ![t] = [ok |-> TRUE, val |-> r.val]]
                /\ pc' = [pc EXCEPT ![t] = "open"]
                /\ msg' = [msg EXCEPT ![t] = <<>>]
                /\ at' = [at EXCEPT ![t] = ""]
           ELSE /\ path' = [path EXCEPT ![t] = NoPath]
                /\ Panic(t, "resolve", FormatUnresolved(r.err, ResolveErrName(o), n))
    /\ UNCHANGED <<file, fs, epoch, heap>>

\* File::open(path).map_err(|_| "file not found")?
OpenStep(t) ==
    /\ pc[t] = "open"
    /\ LET e == Entry(fs, path[t].val)
       IN  \/ /\ OpenMaySucceed(e)
              /\ handle' = [handle EXCEPT ![t] = [open |-> TRUE, live |-> TRUE, data |-> <<>>]]
              /\ pc' = [pc EXCEPT ![t] = "read"]
              /\ fresh' = [fresh EXCEPT ![t] = TRUE]
              /\ UNCHANGED <<msg, at>>
           \/ /\ OpenMayFail(e)
              /\ Panic(t, "open", FormatResolved("file not found", LoadErrName(op[t]), name[t], path[t].val))
              /\ UNCHANGED <<handle, fresh>>
    /\ UNCHANGED <<file, op, name, path, contents, ref, fs, epoch, heap>>

\* What an open handle reads: the file's bytes now, or, once the file has
\* been unlinked, the bytes it had then.
HandleEntry(t) ==
    IF handle[t].live THEN Entry(fs, path[t].val) ELSE FileEntry(handle[t].data)

\* f.read_to_end(&mut contents).map_err(|_| "unable to read the file")?
ReadStep(t) ==
    /\ pc[t] = "read"
    /\ \/ /\ ReadMaySucceed(HandleEntry(t))
          /\ contents' = [contents EXCEPT ![t] = ReadToEnd(contents[t], HandleEntry(t).data)]
          /\ pc' = [pc EXCEPT ![t] = "leak"]
          /\ UNCHANGED <<msg, at, handle>>
       \/ /\ contents' = [contents EXCEPT ![t] = <<>>]
          /\ handle' = [handle EXCEPT ![t] = NoHandle]
          /\ Panic(t, "read", FormatResolved("unable to read the file", LoadErrName(op[t]), name[t], path[t].val))
    /\ UNCHANGED <<file, op, name, path, ref, fresh, fs, epoch, heap>>

\* The reference Box::leak returns for the box just added to the heap.
LeakedRef(h) == [ptr |-> h[Len(h)].ptr, len |-> Len(h[Len(h)].bytes)]

\* let contents = contents.into_boxed_slice(); Ok(Box::leak(contents))
LeakStep(t) ==
    /\ pc[t] = "leak"
    /\ heap' = Leaked(heap, contents[t])
    /\ ref' = [ref EXCEPT ![t] = LeakedRef(heap')]
    /\ contents' = [contents EXCEPT ![t] = <<>>]
    /\ handle' = [handle EXCEPT ![t] = NoHandle]
    /\ pc' = [pc EXCEPT ![t] = IF op[t] = "str" THEN "utf8" ELSE "done"]
    /\ UNCHANGED <<file, op, name, path, msg, at, fresh, fs, epoch>>

\* A load_file_str that takes the leaked bytes back when they are not UTF-8.
Utf8StepReclaims(t) ==
    /\ pc[t] = "utf8"
    /\ IF FromUtf8(Deref(heap, ref[t]))
       THEN /\ pc' = [pc EXCEPT ![t] = "done"]
            /\ UNCHANGED <<msg, at, ref, heap>>
       ELSE /\ ref' = [ref EXCEPT ![t] = NoRef]
            /\ heap' = SelectSeq(heap, LAMBDA b : b.ptr # ref[t].ptr \/ b.bytes = <<>>)
            /\ Panic(t, "utf8", FormatResolved("invalid utf8", LoadErrName(op[t]), name[t], path[t].val))
    /\ UNCHANGED <<file, op, name, path, handle, contents, fresh, fs, epoch>>

\* let s = str::from_utf8(bytes).map_err(|_| "invalid utf8")?
Utf8Step(t) ==
    /\ pc[t] = "utf8"
    /\ IF FromUtf8(Deref(heap, ref[t]))
       THEN /\ pc' = [pc EXCEPT ![t] = "done"]
            /\ UNCHANGED <<msg, at, ref>>
       ELSE /\ ref' = [ref EXCEPT ![t] = NoRef]
            /\ Panic(t, "utf8", FormatResolved("invalid utf8", LoadErrName(op[t]), name[t], path[t].val))
    /\ UNCHANGED <<file, op, name, path, handle, contents, fresh, fs, epoch, heap>>

(***************************************************************************)
(* The rest of the world: the files are edited while the program runs.     *)
(***************************************************************************)
Write(p, c) ==
    /\ epoch < MaxWrites
    /\ Entry(fs, p).kind \in {"file", "none"}
    /\ fs' = [fs EXCEPT ![p] = FileEntry(c)]
    /\ epoch' = epoch + 1
    /\ fresh' = [t \in Threads |-> FALSE]
    /\ UNCHANGED <<file, pc, op, name, path, handle, contents, ref, msg, at, heap>>

Delete(p) ==
    /\ epoch < MaxWrites
    /\ fs[p].kind = "file"
    /\ fs' = [fs EXCEPT ![p] = NoEntry]
    /\ epoch' = epoch + 1
    /\ handle' = [t \in Threads |->
                    IF handle[t].open /\ handle[t].live /\ path[t].val = p
                    THEN [open |-> TRUE, live |-> FALSE, data |-> fs[p].data]
                    ELSE handle[t]]
    /\ fresh' = [t \in Threads |-> FALSE]
    /\ UNCHANGED <<file, pc, op, name, path, contents, ref, msg, at, heap>>

ThreadStep(t) == OpenStep(t) \/ ReadStep(t) \/ LeakStep(t) \/ Utf8Step(t)

Next ==
    \/ \E t \in Threads, o \in Ops, n \in Names : Call(t, o, n)
    \/ \E t \in Threads : OpenStep(t)
    \/ \E t \in Threads : ReadStep(t)
    \/ \E t \in Threads : LeakStep(t)
    \/ \E t \in Threads : Utf8Step(t)
    \/ \E p \in MutablePaths, c \in Contents : Write(p, c)
    \/ \E p \in MutablePaths : Delete(p)

Spec == Init /\ [][Next]_vars

(***************************************************************************)
(* Concurrent calls from two call paths whose files are distinct (the two  *)
(* source files lie in different directories), nothing else touching the   *)
(* files.  A thread that is inside a call is scheduled again.              *)
(***************************************************************************)
InitConc ==
    /\ file = (1 :> SrcMain) @@ (2 :> TopMain)
    /\ fs \in {[Fs0 EXCEPT ![PathSA] = FileEntry(c), ![PathA] = FileEntry(d)] :
                 c \in Contents, d \in Contents}
    /\ InitThreads

NextConc ==
    \/ \E t \in Threads, o \in Ops, n \in Names : Call(t, o, n)
    \/ \E t \in Threads : OpenStep(t)
    \/ \E t \in Threads : ReadStep(t)
    \/ \E t \in Threads : LeakStep(t)
    \/ \E t \in Threads : Utf8Step(t)

FairSpec == InitConc /\ [][NextConc]_vars /\ \A t \in Threads : WF_vars(ThreadStep(t))

(***************************************************************************)
(* resolve_path over all short paths: one call site whose file!() is any   *)
(* path of at most MaxPathLen characters makes one call with any such      *)
(* relative path.                                                          *)
(***************************************************************************)
PathChars == {"/", ".", "a"}
ShortPaths == SeqsUpTo(PathChars, MaxPathLen)

InitResolve ==
    /\ file \in {f \in [Threads -> ShortPaths \cup {SrcMain}] : f[2] = SrcMain}
    /\ fs = Fs0
    /\ InitThreads

NextResolve ==
    \/ \E o \in Ops, n \in ShortPaths : pc[1] = "idle" /\ Call(1, o, n)
    \/ OpenStep(1)
    \/ ReadStep(1)
    \/ LeakStep(1)
    \/ Utf8Step(1)

SpecResolve == InitResolve /\ [][NextResolve]_vars

(***************************************************************************)
(* One load of a file holding any byte sequence of at most MaxBytes bytes  *)
(* drawn from bytes on the borders of the UTF-8 ranges.                    *)
(***************************************************************************)
ByteAlphabet == {65, 128, 160, 194, 224, 237, 240}
ShortFiles == SeqsUpTo(ByteAlphabet, MaxBytes)

InitUtf8 ==
    /\ file = [t \in Threads |-> SrcMain]
    /\ fs \in {[Fs0 EXCEPT ![PathSA] = FileEntry(c)] : c \in ShortFiles}
    /\ InitThreads

NextUtf8 ==
    \/ \E o \in Ops : pc[1] = "idle" /\ Call(1, o, NameA)
    \/ OpenStep(1)
    \/ ReadStep(1)
    \/ LeakStep(1)
    \/ Utf8Step(1)

SpecUtf8 == InitUtf8 /\ [][NextUtf8]_vars

(***************************************************************************)
(* Properties.                                                             *)
(***************************************************************************)
Reason(t) == msg[t][1]
Finished(t) == pc[t] \in {"done", "panicked"}
LeavesLeak(t) == pc[t] = "leak" /\ pc'[t] # "leak"

\* C1: a load that succeeds returns the bytes the file holds when the load
\* reads it, all of them and nothing more: the buffer filled by the read is
\* the file's content at that moment, and the reference handed out by the
\* leak covers exactly that buffer, whatever was loaded or written before.
C1_LoadReturnsCurrentContent ==
    [][\A t \in Threads :
          /\ (pc[t] = "read" /\ pc'[t] = "leak") =>
                contents'[t] = (IF handle[t].live THEN Entry(fs, path[t].val).data
                                ELSE handle[t].data)
          /\ LeavesLeak(t) =>
                /\ Deref(heap', ref'[t]) = contents[t]
                /\ ref'[t].len = Len(contents[t])]_vars

\* C1 witness: after a load of s/a and a rewrite of s/a, a second load of
\* s/a has returned the new bytes in a new box.
C1_Witness ==
    \E t \in Threads :
        /\ pc[t] = "done" /\ op[t] = "bytes" /\ path[t].val = PathSA
        /\ Len(heap) = 2 /\ heap[1].bytes = Hi
        /\ epoch > 0 /\ fresh[t]
        /\ Deref(heap, ref[t]) = BadUtf8 /\ fs[PathSA].data = BadUtf8

\* Well-formed UTF-8 by definition: the bytes are the concatenation of the
\* shortest encodings of scalar values (0..10FFFF without D800..DFFF).
Bits(b, lo, hi) == lo <= b /\ b <= hi
EncodesScalar(c) ==
    \/ Len(c) = 1 /\ c[1] < 128
    \/ /\ Len(c) = 2 /\ Bits(c[1], 192, 223) /\ Bits(c[2], 128, 191)
       /\ (c[1] - 192) * 64 + (c[2] - 128) >= 128
    \/ /\ Len(c) = 3 /\ Bits(c[1], 224, 239) /\ Bits(c[2], 128, 191) /\ Bits(c[3], 128, 191)
       /\ LET cp == (c[1] - 224) * 4096 + (c[2] - 128) * 64 + (c[3] - 128)
          IN  cp >= 2048 /\ ~(55296 <= cp /\ cp <= 57343)
    \/ /\ Len(c) = 4 /\ Bits(c[1], 240, 247)
       /\ Bits(c[2], 128, 191) /\ Bits(c[3], 128, 191) /\ Bits(c[4], 128, 191)
       /\ LET cp == (c[1] - 240) * 262144 + (c[2] - 128) * 4096
                    + (c[3] - 128) * 64 + (c[4] - 128)
          IN  cp >= 65536 /\ cp <= 1114111

RECURSIVE WellFormedUtf8(_)
WellFormedUtf8(v) ==
    \/ v = <<>>
    \/ \E k \in 1..4 :
          /\ k <= Len(v)
          /\ EncodesScalar(SubSeq(v, 1, k))
          /\ WellFormedUtf8(SubSeq(v, k + 1, Len(v)))

\* C2: load_str! returns the file's bytes as text exactly when they are
\* well-formed UTF-8 and fails with "invalid utf8" when they are not;
\* load_bytes! on the same file never fails for that reason and returns
\* the raw bytes in both cases.
C2_TextIffValidUtf8 ==
    \A t \in Threads :
        LET c == fs[PathSA].data
        IN  /\ (pc[t] = "done") => Deref(heap, ref[t]) = c
            /\ (pc[t] = "done" /\ op[t] = "str") => WellFormedUtf8(c)
            /\ (pc[t] = "panicked" /\ at[t] = "utf8") =>
                  op[t] = "str" /\ ~WellFormedUtf8(c) /\ Reason(t) = "invalid utf8"
            /\ (pc[t] = "panicked" /\ op[t] = "bytes") => Reason(t) # "invalid utf8"
            /\ (pc[t] = "panicked" /\ at[t] # "utf8") => Reason(t) # "invalid utf8"

\* C2 witness: load_str! of a file holding an overlong three-byte form has
\* failed with "invalid utf8", the bytes E0 80 80 being leaked.
C2_Witness ==
    /\ pc[1] = "panicked" /\ op[1] = "str" /\ at[1] = "utf8"
    /\ heap = <<[ptr |-> 1, bytes |-> <<224, 128, 128>>]>>

\* The name of the macro a thread invoked.
Invoked(t) == IF op[t] = "str" THEN "load_str!" ELSE "load_bytes!"

Quoted(s) == <<"\"">> \o s \o <<"\"">>

Reasons ==
    {"invalid source file path", "file not found", "unable to read the file", "invalid utf8"}

\* C3: every panic message names the macro that was invoked, after the
\* reason and before the quoted relative path argument.
C3_MessageNamesInvokedMacro ==
    \A t \in Threads :
        pc[t] = "panicked" =>
            /\ Reason(t) \in Reasons
            /\ SubSeq(msg[t], 2, 4) = <<" in ", Invoked(t), "(">>
            /\ SubSeq(msg[t], 5, 6 + Len(name[t])) = Quoted(name[t])

\* C4: a macro call ends by returning the loaded value or by panicking,
\* never with an error value; the panic message is
\* <reason> in <operation>(<quoted relative path>), followed by
\* " (resolved to: <quoted resolved path>)" exactly when resolve_path had
\* succeeded and a later step failed.
C4_MessageShape ==
    \A t \in Threads :
        /\ pc[t] = "done" =>
              /\ msg[t] = <<>> /\ at[t] = ""
              /\ ref[t] # NoRef
              /\ ref[t].len > 0 => ref[t].ptr \in Ptrs(heap)
        /\ pc[t] = "panicked" =>
              /\ ref[t] = NoRef
              /\ at[t] = "resolve" <=> ~path[t].ok
              /\ \E r \in Reasons, o \in {"load_bytes!", "load_str!"} :
                    msg[t] = <<r, " in ", o, "(">> \o Quoted(name[t]) \o <<")">>
                             \o (IF path[t].ok
                                 THEN <<" (resolved to: ">> \o Quoted(path[t].val) \o <<")">>
                                 ELSE <<>>)

\* C4 witness: a call whose path was resolved has panicked at the open, the
\* message ending with the resolved path.
C4_Witness ==
    /\ pc[1] = "panicked" /\ at[1] = "open" /\ file[1] = <<"a", "/", "a">>
    /\ name[1] = <<".", "a">>
    /\ msg[1] = <<"file not found", " in ", "load_str!", "(", "\"", ".", "a", "\"", ")",
                  " (resolved to: ", "\"", "a", "/", ".", "a", "\"", ")">>

\* The directory portion of a path, read from the front: the components are
\* the maximal runs without a separator, a "." counts only as the first
\* component of a relative path, and the directory is everything up to the
\* end of the component before the last one.
Runs(b) ==
    {r \in (1..Len(b)) \X (1..Len(b)) :
        /\ r[1] <= r[2]
        /\ \A i \in r[1]..r[2] : b[i] # "/"
        /\ (r[1] = 1 \/ b[r[1] - 1] = "/")
        /\ (r[2] = Len(b) \/ b[r[2] + 1] = "/")}
Components(b) == {r \in Runs(b) : SubSeq(b, r[1], r[2]) # <<".">> \/ r[1] = 1}
HasParent(b) == Components(b) # {}
Directory(b) ==
    LET cs == Components(b)
        last == CHOOSE r \in cs : \A q \in cs : q[1] <= r[1]
        before == cs \ {last}
    IN  IF before = {}
        THEN (IF Len(b) > 0 /\ b[1] = "/" THEN <<"/">> ELSE <<>>)
        ELSE LET prev == CHOOSE r \in before : \A q \in before : q[1] <= r[1]
             IN  SubSeq(b, 1, prev[2])

\* C5: when base has a parent, resolve_path returns the join of the
\* directory of base (its file name discarded) with rel, character for
\* character: rel itself when rel is absolute, otherwise the directory, a
\* separator unless the directory is empty or ends with one, and rel.
C5_ResolveIsParentJoinRel ==
    \A t \in Threads :
        (pc[t] # "idle" /\ HasParent(file[t])) =>
            LET dir == Directory(file[t])
                rel == name[t]
            IN  /\ path[t].ok
                /\ path[t].val =
                      IF Len(rel) > 0 /\ rel[1] = "/" THEN rel
                      ELSE IF dir = <<>> \/ dir[Len(dir)] = "/" THEN dir \o rel
                      ELSE dir \o <<"/">> \o rel

\* C5 witness: base a/a and rel ./a have been resolved to a/./a.
C5_Witness ==
    /\ file[1] = <<"a", "/", "a">> /\ name[1] = <<".", "/", "a">>
    /\ path[1] = [ok |-> TRUE, val |-> <<"a", "/", ".", "/", "a">>]

\* A base that is one file name and nothing else, such as main.rs.
BareFileName(b) ==
    /\ b # <<>> /\ b # <<".">> /\ b # <<".", ".">>
    /\ \A i \in 1..Len(b) : b[i] # "/"

\* C6 as stated: resolve_path fails with "invalid source file path" for a
\* base without a parent, and a base that is a bare file name, its parent
\* being the empty path, does not pass the input constraint either.
C6_BareFileNameRejected ==
    \A t \in Threads :
        (pc[t] # "idle" /\ (~HasParent(file[t]) \/ BareFileName(file[t]))) =>
            /\ ~path[t].ok
            /\ pc[t] = "panicked" /\ Reason(t) = "invalid source file path"

\* C6 amended: resolve_path fails, with "invalid source file path", exactly
\* for a base that has no parent (a root or the empty path); a base that is
\* a bare file name has the empty path as its parent and is resolved, a
\* relative rel being returned as it is.
C6_InvalidBaseIffNoParent ==
    \A t \in Threads :
        pc[t] # "idle" =>
            /\ path[t].ok <=> HasParent(file[t])
            /\ ~HasParent(file[t]) =>
                  /\ pc[t] = "panicked" /\ at[t] = "resolve"
                  /\ Reason(t) = "invalid source file path"
            /\ (HasParent(file[t]) /\ Directory(file[t]) = <<>> /\ ~IsAbsolute(name[t])) =>
                  path[t] = [ok |-> TRUE, val |-> name[t]]

\* C6 witness: the base is the bare file name a, and .a has been resolved
\* to .a.
C6_Witness ==
    /\ file[1] = <<"a">> /\ name[1] = <<".", "a">>
    /\ path[1] = [ok |-> TRUE, val |-> <<".", "a">>]

\* The kinds of the targets nothing rewrites while the program runs.
FixedKind(t) ==
    IF path[t].ok /\ path[t].val \notin MutablePaths
    THEN Entry(fs, path[t].val).kind ELSE "unknown"

\* C7 as stated: a target that is missing, unreadable or a directory is
\* always reported as "file not found".
C7_DirectoryIsFileNotFound ==
    \A t \in Threads :
        (pc[t] = "panicked" /\ FixedKind(t) \in {"none", "locked", "dir"}) =>
            Reason(t) = "file not found"

\* The steps of a call, in their order.
StepOrder ==
    {<<"idle", "open">>, <<"idle", "panicked">>, <<"done", "open">>, <<"done", "panicked">>,
     <<"open", "read">>, <<"open", "panicked">>, <<"read", "leak">>, <<"read", "panicked">>,
     <<"leak", "utf8">>, <<"leak", "done">>, <<"utf8", "done">>, <<"utf8", "panicked">>}

\* C7 amended: "file not found" is the one error of every failed open
\* (missing file, permission denied, and a directory where the platform
\* does not open directories); "unable to read the file" is reported only
\* after the open succeeded and the read failed, which is also what a
\* directory gives where the platform opens it; the steps run in the order
\* resolution, open, read, leak, validation and nothing runs after a failure.
C7_OpenAndReadErrors ==
    /\ [](\A t \in Threads :
            /\ FixedKind(t) \in {"none", "locked"} =>
                  /\ pc[t] \in {"open", "panicked"}
                  /\ pc[t] = "panicked" => at[t] = "open"
            /\ FixedKind(t) = "dir" =>
                  /\ pc[t] \in {"open", "read", "panicked"}
                  /\ pc[t] = "panicked" => at[t] \in {"open", "read"}
            /\ pc[t] = "panicked" =>
                  /\ at[t] = "resolve" <=> Reason(t) = "invalid source file path"
                  /\ at[t] = "open" <=> Reason(t) = "file not found"
                  /\ at[t] = "read" <=> Reason(t) = "unable to read the file"
                  /\ at[t] = "utf8" <=> Reason(t) = "invalid utf8"
                  /\ handle[t] = NoHandle /\ contents[t] = <<>> /\ ref[t] = NoRef)
    /\ [][\A t \in Threads :
            /\ pc'[t] # pc[t] => <<pc[t], pc'[t]>> \in StepOrder
            /\ pc[t] = "panicked" =>
                  /\ pc'[t] = "panicked" /\ msg'[t] = msg[t] /\ at'[t] = at[t]
                  /\ handle'[t] = handle[t] /\ contents'[t] = contents[t]
            /\ (pc[t] = "read" /\ pc'[t] = "panicked") => handle[t].open
            /\ (pc[t] = "open" /\ pc'[t] = "panicked") => ~handle[t].open]_vars

\* C7 witness: the target is a directory, the open succeeded and the read
\* failed with "unable to read the file".
C7_Witness ==
    \E t \in Threads :
        /\ pc[t] = "panicked" /\ at[t] = "read" /\ path[t].val = PathSD
        /\ Reason(t) = "unable to read the file"

\* C8: a leaked box never changes and never moves, whatever is loaded,
\* written, deleted or fails afterwards; no two boxes that hold bytes
\* share an address; a returned reference keeps pointing at its box; and
\* two loads of one path made while the file system was the same hold
\* equal bytes in two boxes.
C8_BuffersImmutableAndDistinct ==
    /\ [](/\ \A i, j \in DOMAIN heap :
               (i # j /\ heap[i].bytes # <<>> /\ heap[j].bytes # <<>>) =>
                   heap[i].ptr # heap[j].ptr
          /\ \A t \in Threads :
               pc[t] \in {"utf8", "done"} =>
                   \E i \in DOMAIN heap :
                       heap[i].ptr = ref[t].ptr /\ Len(heap[i].bytes) = ref[t].len
          /\ \A t, u \in Threads :
               (t # u /\ pc[t] = "done" /\ pc[u] = "done" /\ path[t] = path[u]
                  /\ fresh[t] /\ fresh[u]) =>
                   /\ Deref(heap, ref[t]) = Deref(heap, ref[u])
                   /\ ref[t].len > 0 => ref[t].ptr # ref[u].ptr)
    /\ [][/\ \A i \in DOMAIN heap : i \in DOMAIN heap' /\ heap'[i] = heap[i]
          /\ \A t \in Threads :
               (pc[t] = "done" /\ pc'[t] = "done") =>
                   ref'[t] = ref[t] /\ Deref(heap', ref'[t]) = Deref(heap, ref[t])]_vars

\* C8 witness: two loads of s/a are held at once, the file rewritten
\* between them, each reference still reading what its load read.
C8_Witness ==
    /\ pc[1] = "done" /\ pc[2] = "done"
    /\ path[1].val = PathSA /\ path[2].val = PathSA
    /\ Deref(heap, ref[1]) = Hi /\ Deref(heap, ref[2]) = BadUtf8
    /\ fs[PathSA] = NoEntry

\* C9: the retained memory only grows; the step that leaks adds one box of
\* the size of the file read and no other step changes the heap, so a
\* failed validation keeps its bytes leaked and a failed resolution, open
\* or read leaks nothing.
C9_RetainedMemoryGrows ==
    [][/\ Retained(heap') >= Retained(heap)
       /\ \A i \in DOMAIN heap : i \in DOMAIN heap' /\ heap'[i] = heap[i]
       /\ \A t \in Threads :
            LeavesLeak(t) =>
                /\ Len(heap') = Len(heap) + 1
                /\ Retained(heap') = Retained(heap) + Len(contents[t])
       /\ (\A t \in Threads : ~LeavesLeak(t)) => heap' = heap]_vars

\* C9 witness: load_str! has failed the validation and its two bytes are
\* still on the heap.
C9_Witness ==
    \E t \in Threads :
        /\ pc[t] = "panicked" /\ at[t] = "utf8"
        /\ Len(heap) = 1 /\ heap[1].bytes = BadUtf8 /\ Retained(heap) = 2

InCall(t) == pc[t] \in {"open", "read", "leak", "utf8"}

\* C10: with two call paths loading distinct files at the same time, a
\* buffer or a returned reference of a call holds the whole content of the
\* call's own file, a step of one call changes nothing of the other call,
\* and every call that has started ends, by returning or by panicking.
C10_ConcurrentLoadsIndependent ==
    /\ [](\A t \in Threads :
            /\ pc[t] = "leak" => contents[t] = Entry(fs, path[t].val).data
            /\ pc[t] \in {"utf8", "done"} =>
                  Deref(heap, ref[t]) = Entry(fs, path[t].val).data
            /\ \A u \in Threads :
                  (t # u /\ path[t].ok /\ path[u].ok) => path[t].val # path[u].val)
    /\ [][\A t, u \in Threads :
            (t # u /\ pc'[t] # pc[t]) =>
                /\ pc'[u] = pc[u] /\ handle'[u] = handle[u] /\ contents'[u] = contents[u]
                /\ ref'[u] = ref[u] /\ path'[u] = path[u] /\ msg'[u] = msg[u]
                /\ (pc[u] \in {"utf8", "done"} =>
                       Deref(heap', ref'[u]) = Deref(heap, ref[u]))]_vars
    /\ \A t \in Threads : InCall(t) ~> Finished(t)

\* C10 witness: thread 1 has returned the bytes of s/a while thread 2, in
\* the middle of its call, holds the bytes of a in its buffer.
C10_Witness ==
    /\ pc[1] = "done" /\ path[1].val = PathSA /\ Deref(heap, ref[1]) = fs[PathSA].data
    /\ pc[2] = "leak" /\ path[2].val = PathA /\ contents[2] = fs[PathA].data
    /\ fs[PathSA].data = Hi /\ fs[PathA].data = BadUtf8
====
